---- MODULE Spec2Model ----
(***************************************************************************)
(* The analytics job engine of the data pipeline: the analytics Lambda     *)
(* (AnalyticsService, its handler and the custom-query sandbox), the job   *)
(* record service (JobService over a DynamoDB table), the result bucket    *)
(* and the Step Functions workflow that drives one job.                    *)
(*                                                                         *)
(* One action is one handler invocation or one workflow state.  The        *)
(* relational store, the bucket, the table and the workflow service are    *)
(* collaborators: what a query returns, and whether a request to one of    *)
(* them is served or refused, are inputs of the actions.                   *)
(***************************************************************************)
EXTENDS Integers, Sequences, FiniteSets, TLC

(***************************************************************************)
(* Bounds of the model.                                                    *)
(***************************************************************************)
MaxTime == 1        \* Date.now() takes the values 0..MaxTime
MaxCalls == 2       \* requests made to a handler directly
MaxJobs == 1        \* job submissions
MaxDelta == 1       \* row counts and sizes within MaxDelta of a threshold

(***************************************************************************)
(* Program constants.                                                      *)
(***************************************************************************)
ROW_THRESHOLD == 1000
BYTE_THRESHOLD == 5000000
MAX_QUERY_LENGTH == 10000
LARGE_RESULT_COUNT == 1000      \* the number CheckResultSize compares with

(***************************************************************************)
(* Optional values: a JavaScript property that is undefined is None.       *)
(***************************************************************************)
None == <<>>
Some(v) == <<v>>
IsSome(o) == Len(o) = 1
Get(o) == o[1]

(***************************************************************************)
(* Rows.  A row is one record of a query result.  Of its content the model *)
(* keeps an identity, whether it holds a Date object (node-postgres gives  *)
(* one for a timestamp column), and the length of its JSON text in UTF-16  *)
(* code units (what String.length counts) and in UTF-8 bytes.  An array of *)
(* rows is kept run-length encoded: the run [first, count, ...] stands for *)
(* the count rows first, first+1, ... in this order, alike in kind and     *)
(* size, and an array is the sequence of its runs.                         *)
(***************************************************************************)
Run(first, count, kind, chars, bytes) ==
    [first |-> first, count |-> count, kind |-> kind, chars |-> chars, bytes |-> bytes]

\* n plain rows, numbered from first on, each of JSON length c
PlainRows(first, n, c) == IF n = 0 THEN <<>> ELSE <<Run(first, n, "text", c, c)>>

\* array.length
RECURSIVE RowCount(_)
RowCount(rows) == IF rows = <<>> THEN 0 ELSE Head(rows).count + RowCount(Tail(rows))

\* JSON.stringify of a row: a Date becomes its ISO string
WireRow(r) == [r EXCEPT !.kind = "text"]
WireRows(rows) == [i \in 1..Len(rows) |-> WireRow(rows[i])]

\* the JSON text of all rows together, in the unit f ("chars" or "bytes")
RECURSIVE RowsText(_, _)
RowsText(rows, f) ==
    IF rows = <<>> THEN 0 ELSE Head(rows).count * Head(rows)[f] + RowsText(Tail(rows), f)

\* length of "[" row "," row ... "]"
ArrayText(rows, f) ==
    2 + RowsText(rows, f) + (IF RowCount(rows) > 0 THEN RowCount(rows) - 1 ELSE 0)

(***************************************************************************)
(* What an operation's handler returns: result.rows of a query (an array)  *)
(* or, for database_info, an object that wraps two arrays.                 *)
(***************************************************************************)
ArrayResult(rows) == [isArray |-> TRUE, rows |-> rows]
ObjectResult(rows) == [isArray |-> FALSE, rows |-> rows]

\* result.length: undefined for an object
JsLength(result) == IF result.isArray THEN Some(RowCount(result.rows)) ELSE None

\* undefined > n is false
JsGreater(optNumber, n) == IsSome(optNumber) /\ Get(optNumber) > n

\* JSON.stringify(result).length; the object adds {"tables": ... } round the array
StringifyLength(result) ==
    ArrayText(result.rows, "chars") + (IF result.isArray THEN 0 ELSE 11)

\* the same text in UTF-8 bytes
StringifyBytes(result) ==
    ArrayText(result.rows, "bytes") + (IF result.isArray THEN 0 ELSE 11)

\* JSON.parse(JSON.stringify(result))
WireResult(result) == [result EXCEPT !.rows = WireRows(result.rows)]

(***************************************************************************)
(* Query text.  A text is a sequence of characters (strings of length 1),  *)
(* so that the sandbox's regular expressions are matched as the regular    *)
(* expression engine matches them.                                         *)
(***************************************************************************)
LowerToUpper ==
    [a |-> "A", b |-> "B", c |-> "C", d |-> "D", e |-> "E", f |-> "F", g |-> "G", h |-> "H", i |-> "I", j |-> "J", k |-> "K", l |-> "L", m |-> "M",
     n |-> "N", o |-> "O", p |-> "P", q |-> "Q", r |-> "R", s |-> "S", t |-> "T", u |-> "U", v |-> "V", w |-> "W", x |-> "X", y |-> "Y", z |-> "Z"]

\* the /i flag: letters compare by their upper case
Upper(c) == IF c \in DOMAIN LowerToUpper THEN LowerToUpper[c] ELSE c

\* \s
IsSpace(c) == c \in {" ", "\t", "\n", "\r"}

\* \w
IsWordChar(c) ==
    \/ Upper(c) \in {LowerToUpper[l] : l \in DOMAIN LowerToUpper}
    \/ c \in {"0", "1", "2", "3", "4", "5", "6", "7", "8", "9", "_"}
kwDROP == <<"D", "R", "O", "P">>
kwDELETE == <<"D", "E", "L", "E", "T", "E">>
kwFROM == <<"F", "R", "O", "M">>
kwTRUNCATE == <<"T", "R", "U", "N", "C", "A", "T", "E">>
kwINSERT == <<"I", "N", "S", "E", "R", "T">>
kwINTO == <<"I", "N", "T", "O">>
kwUPDATE == <<"U", "P", "D", "A", "T", "E">>
kwSET == <<"S", "E", "T">>
kwCREATE == <<"C", "R", "E", "A", "T", "E">>
kwALTER == <<"A", "L", "T", "E", "R">>
kwGRANT == <<"G", "R", "A", "N", "T">>
kwREVOKE == <<"R", "E", "V", "O", "K", "E">>

\* the literal lit stands at position i of text, in any letter case
LiteralAt(text, i, lit) ==
    /\ i >= 1
    /\ i + Len(lit) - 1 <= Len(text)
    /\ \A k \in 1..Len(lit) : Upper(text[i + k - 1]) = lit[k]

SpaceAt(text, i) == i >= 1 /\ i <= Len(text) /\ IsSpace(text[i])
WordCharAt(text, i) == i >= 1 /\ i <= Len(text) /\ IsWordChar(text[i])

\* the first position at or after i that holds no white space (\s+ is greedy,
\* and what follows it in every pattern is no white space)
AfterSpaces(text, i) ==
    CHOOSE j \in i..(Len(text) + 1) :
        /\ \A k \in i..(j - 1) : IsSpace(text[k])
        /\ (j = Len(text) + 1 \/ ~IsSpace(text[j]))

\* the first position at or after i that holds no word character
AfterWord(text, i) ==
    CHOOSE j \in i..(Len(text) + 1) :
        /\ \A k \in i..(j - 1) : IsWordChar(text[k])
        /\ (j = Len(text) + 1 \/ ~IsWordChar(text[j]))

\* /KEYWORD\s+/i
KeywordPattern(kw) == [shape |-> "keyword", first |-> kw, second |-> <<>>]
\* /FIRST\s+SECOND/i
PhrasePattern(a, b) == [shape |-> "phrase", first |-> a, second |-> b]
\* /FIRST\s+\w+\s+SECOND/i
TargetPattern(a, b) == [shape |-> "target", first |-> a, second |-> b]

forbiddenPatterns ==
    << KeywordPattern(kwDROP),
       PhrasePattern(kwDELETE, kwFROM),
       KeywordPattern(kwTRUNCATE),
       PhrasePattern(kwINSERT, kwINTO),
       TargetPattern(kwUPDATE, kwSET),
       KeywordPattern(kwCREATE),
       KeywordPattern(kwALTER),
       KeywordPattern(kwGRANT),
       KeywordPattern(kwREVOKE) >>

\* pattern matches text with its first literal at position i
MatchesAt(pattern, text, i) ==
    LET a == i + Len(pattern.first)
    IN  /\ LiteralAt(text, i, pattern.first)
        /\ SpaceAt(text, a)
        /\ CASE pattern.shape = "keyword" -> TRUE
             [] pattern.shape = "phrase" ->
                    LiteralAt(text, AfterSpaces(text, a), pattern.second)
             [] pattern.shape = "target" ->
                    LET w == AfterSpaces(text, a)
                        e == AfterWord(text, w)
                    IN  /\ WordCharAt(text, w)
                        /\ SpaceAt(text, e)
                        /\ LiteralAt(text, AfterSpaces(text, e), pattern.second)

\* pattern.test(query)
Test(pattern, text) == \E i \in 1..Len(text) : MatchesAt(pattern, text, i)

\* an Error object: error.constructor.name and error.message
Err(name, message) == [name |-> name, message |-> message]

\* validateCustomQuery: None when the text passes, else the Error it throws
validateCustomQuery(query) ==
    IF \E p \in 1..Len(forbiddenPatterns) : Test(forbiddenPatterns[p], query)
    THEN Some(Err("Error", "Query contains forbidden operations"))
    ELSE IF Len(query) > MAX_QUERY_LENGTH
    THEN Some(Err("Error", "Query too complex. Maximum length exceeded."))
    ELSE None

(***************************************************************************)
(* The query texts callers send.                                           *)
(***************************************************************************)
qSelect == <<"S", "E", "L", "E", "C", "T", " ", "1">>    \* a read-only statement
qDrop == <<"D", "R", "O", "P", " ", "T", "A", "B", "L", "E", " ", "t">>
qDropLower == <<"d", "r", "o", "p", " ", "t", "a", "b", "l", "e", " ", "t">>
qDropComment == <<"D", "R", "O", "P", "/", "*", "*", "/", "T", "A", "B", "L", "E", " ", "t">>    \* a comment, not white space, follows the keyword
qDeleteFrom == <<"d", "e", "l", "e", "t", "e", "\t", "f", "r", "o", "m", " ", "t">>
qUpdate == <<"U", "P", "D", "A", "T", "E", " ", "t", " ", "S", "E", "T", " ", "a", "=", "1">>
qUpdateQualified == <<"U", "P", "D", "A", "T", "E", " ", "s", ".", "t", " ", "S", "E", "T", " ", "a", "=", "1">>    \* a schema-qualified table name

QueryTexts == {qSelect, qDrop, qDropLower, qDropComment, qDeleteFrom, qUpdate, qUpdateQualified}

(***************************************************************************)
(* Requests.  parameters is None when the caller sends none (undefined);   *)
(* a parameter the caller leaves out is None within it.                    *)
(***************************************************************************)
Params(query, timeframe) == [query |-> query, timeframe |-> timeframe]
EmptyParameters == Params(None, None)

\* the names the switch of executeAnalyticsOperation has a case for
RegisteredOperations ==
    {"database_info", "multi_dimensional_analytics", "relationship_network",
     "time_series_patterns", "data_integrity_analysis", "customer_analysis",
     "revenue_analysis", "count_analysis", "custom_complex_query", "simple_demo"}

Request(operation, parameters) == [operation |-> operation, parameters |-> parameters]

\* report requests: registered operations with fixed queries, and a name that
\* is not registered
ReportRequests ==
    {Request("count_analysis", None),
     Request("count_analysis", Some(EmptyParameters)),
     Request("database_info", Some(EmptyParameters)),
     Request("invalid_operation_x", Some(EmptyParameters))}

\* ad-hoc requests: custom_complex_query without a query, with an empty one and
\* with each of the query texts
CustomRequests ==
    {Request("custom_complex_query", p) :
        p \in {None, Some(EmptyParameters)}
                \cup {Some(Params(Some(q), None)) : q \in QueryTexts \cup {<<>>}}}

(***************************************************************************)
(* What the relational store answers to one query, and whether the bucket  *)
(* and the table serve one request.                                        *)
(***************************************************************************)
SmallRows == <<Run(1, 1, "date", 30, 30), Run(2, 1, "text", 12, 12)>>

\* row counts from the threshold up
CountRowSets == {PlainRows(1, ROW_THRESHOLD + d, 10) : d \in 0..MaxDelta}

\* one row whose array text is d characters above the size threshold
SizeRowSets == {<<Run(1, 1, "text", BYTE_THRESHOLD - 2 + d, BYTE_THRESHOLD - 2 + d)>> :
                    d \in 0..MaxDelta}

\* one row of two-byte characters: half the threshold in characters
WideRows == <<Run(1, 1, "text", BYTE_THRESHOLD \div 2, BYTE_THRESHOLD)>>

RowSets == {<<>>, SmallRows, WideRows} \cup CountRowSets \cup SizeRowSets

DbRows(rows) == [ok |-> TRUE, rows |-> rows, error |-> None]
DbError(e) == [ok |-> FALSE, rows |-> <<>>, error |-> Some(e)]

DbOutcomes ==
    {DbRows(rows) : rows \in RowSets}
        \cup {DbError(Err("DatabaseError", "canceling statement due to statement timeout"))}

Served == [ok |-> TRUE, error |-> None]
Refused(e) == [ok |-> FALSE, error |-> Some(e)]

S3Outcomes == {Served, Refused(Err("S3ServiceException", "Access Denied"))}

(***************************************************************************)
(* The result bucket: S3 key -> the object's JSON text, kept as the value  *)
(* the text parses to.  A key is results/<operation>-<time>.json, kept as  *)
(* the sequence of its parts.                                              *)
(***************************************************************************)
\* `${operation}-${Date.now()}.json`
ResultName(operation, time) == <<operation, time>>

\* `results/${name}`
S3Key(name) == <<"results">> \o name

\* s3Key.split('/').pop()
LastSegment(key) == Tail(key)

\* PutObject: the object under key is replaced
PutObject(objects, key, body) ==
    [k \in DOMAIN objects \cup {key} |-> IF k = key THEN body ELSE objects[k]]

DeleteObject(objects, key) == [k \in DOMAIN objects \ {key} |-> objects[k]]

(***************************************************************************)
(* AnalyticsService.  An envelope is what executeAnalyticsOperation        *)
(* returns; a key the JavaScript object does not have is None.             *)
(***************************************************************************)
Envelope(success, operation) ==
    [success |-> success, operation |-> operation, data |-> None,
     largeResult |-> None, s3Url |-> None, downloadUrl |-> None,
     recordCount |-> None, metadata |-> None, error |-> None, suggestions |-> None]

\* error.message.includes(word), for the messages of this model
Includes(message, word) ==
    CASE word = "timeout" -> message = "canceling statement due to statement timeout"
      [] word = "syntax" -> message = "syntax error at or near \"1\""
      [] OTHER -> FALSE

\* getErrorSuggestions returning the list as collected, empty or not
getErrorSuggestionsAsCollected(error, operation) ==
    (IF Includes(error.message, "timeout")
     THEN <<"Try reducing the analysis timeframe", "Consider using smaller data subsets">>
     ELSE <<>>)
    \o (IF Includes(error.message, "memory")
        THEN <<"Try using more specific filters", "Consider implementing pagination">>
        ELSE <<>>)
    \o (IF Includes(error.message, "syntax")
        THEN <<"Check query syntax and parameter types">>
        ELSE <<>>)
    \o (CASE operation = "relationship_network" ->
                <<"Try specifying a rootEntityId to limit the graph traversal">>
          [] operation = "multi_dimensional_analytics" ->
                <<"Try using a shorter timeframe for initial analysis">>
          [] OTHER -> <<>>)

getErrorSuggestions(error, operation) ==
    LET byMessage ==
            (IF Includes(error.message, "timeout")
             THEN <<"Try reducing the analysis timeframe",
                    "Consider using smaller data subsets">>
             ELSE <<>>)
            \o (IF Includes(error.message, "memory")
                THEN <<"Try using more specific filters",
                       "Consider implementing pagination">>
                ELSE <<>>)
            \o (IF Includes(error.message, "syntax")
                THEN <<"Check query syntax and parameter types">>
                ELSE <<>>)
        byOperation ==
            CASE operation = "relationship_network" ->
                    <<"Try specifying a rootEntityId to limit the graph traversal">>
              [] operation = "multi_dimensional_analytics" ->
                    <<"Try using a shorter timeframe for initial analysis">>
              [] OTHER -> <<>>
        suggestions == byMessage \o byOperation
    IN  IF Len(suggestions) > 0 THEN suggestions ELSE <<"Check parameters and try again">>

\* the catch block of executeAnalyticsOperation
FailureEnvelope(operation, error) ==
    [Envelope(FALSE, operation) EXCEPT
        !.error = Some([message |-> error.message, type |-> error.name]),
        !.suggestions = Some(getErrorSuggestions(error, operation))]

\* the return of executeAnalyticsOperation for a result that is not large
InlineEnvelope(operation, result) ==
    [Envelope(TRUE, operation) EXCEPT
        !.data = Some(result),
        !.metadata = Some([resultCount |->
            IF IsSome(JsLength(result)) THEN JsLength(result) ELSE Some(0)])]

\* HandleEnvelope with the rows left in the envelope beside the handle
HandleEnvelopeKeepingData(operation, result, key) ==
    [Envelope(TRUE, operation) EXCEPT
        !.data = Some(result),
        !.largeResult = Some(TRUE),
        !.s3Url = Some(key),
        !.downloadUrl = Some(LastSegment(key)),
        !.recordCount = JsLength(result),
        !.metadata = Some([resultCount |-> JsLength(result)])]

\* what saveLargeResultToS3 returns once the object is written
HandleEnvelope(operation, result, key) ==
    [Envelope(TRUE, operation) EXCEPT
        !.largeResult = Some(TRUE),
        !.s3Url = Some(key),
        !.downloadUrl = Some(LastSegment(key)),
        !.recordCount = JsLength(result),
        !.metadata = Some([resultCount |-> JsLength(result)])]

\* saveLargeResultToS3 with the PutObject not awaited: the envelope is returned
\* whether or not the bucket takes the object
saveLargeResultUnawaited(result, operation, time, s3, objects) ==
    LET s3Key == S3Key(ResultName(operation, time))
        resultData == [operation |-> operation, data |-> WireResult(result),
                       recordCount |-> JsLength(result)]
    IN  [error |-> None,
         envelope |-> Some(HandleEnvelope(operation, result, s3Key)),
         objects |-> IF s3.ok THEN PutObject(objects, s3Key, resultData) ELSE objects]

\* saveLargeResultToS3: the PutObject is awaited; when the bucket refuses it the
\* method throws and returns no envelope
saveLargeResultToS3(result, operation, time, s3, objects) ==
    LET s3Key == S3Key(ResultName(operation, time))
        resultData == [operation |-> operation, data |-> WireResult(result),
                       recordCount |-> JsLength(result)]
    IN  IF s3.ok
        THEN [error |-> None,
              envelope |-> Some(HandleEnvelope(operation, result, s3Key)),
              objects |-> PutObject(objects, s3Key, resultData)]
        ELSE [error |-> s3.error, envelope |-> None, objects |-> objects]

\* !value
Falsy(optText) == ~IsSome(optText) \/ Len(Get(optText)) = 0

\* a step of the switch: the Error thrown, or the result, and the caller-supplied
\* texts handed to pool.query
Threw(e) == [error |-> Some(e), result |-> None, queried |-> {}]
Returned(result, queried) == [error |-> None, result |-> Some(result), queried |-> queried]

\* executeCustomComplexQuery: validate, then pool.query(query, params)
executeCustomComplexQuery(query, db) ==
    LET rejected == validateCustomQuery(query)
    IN  IF IsSome(rejected) THEN Threw(Get(rejected))
        ELSE IF db.ok THEN Returned(ArrayResult(db.rows), {query})
        ELSE [Threw(Get(db.error)) EXCEPT !.queried = {query}]

\* the switch of executeAnalyticsOperation
RunOperation(operation, parameters, db) ==
    CASE operation = "custom_complex_query" ->
            IF Falsy(parameters.query)
            THEN Threw(Err("Error", "Custom query is required for this operation"))
            ELSE executeCustomComplexQuery(Get(parameters.query), db)
      [] operation = "database_info" ->
            IF db.ok THEN Returned(ObjectResult(db.rows), {}) ELSE Threw(Get(db.error))
      [] operation \in RegisteredOperations \ {"custom_complex_query", "database_info"} ->
            IF db.ok THEN Returned(ArrayResult(db.rows), {}) ELSE Threw(Get(db.error))
      [] OTHER -> Threw(Err("Error", "Unknown analytics operation"))

(***************************************************************************)
(* AdvancedQueryService: the statement each report method hands to         *)
(* pool.query.  The SQL text is the sequence of its parts, a part being a  *)
(* fixed piece of the method's template or a value of the caller spliced   *)
(* into the text by ${...}; values are the parameters bound to $1, ...     *)
(***************************************************************************)
Fixed(name) == [fixed |-> TRUE, text |-> name]
Spliced(value) == [fixed |-> FALSE, text |-> value]

Statement(text, values) == [text |-> text, values |-> values]

\* parameters[key], undefined when the caller leaves the key out
Param(parameters, key) ==
    IF key \in DOMAIN parameters THEN parameters[key] ELSE None

\* value || fallback
OrDefault(optText, fallback) == IF Falsy(optText) THEN fallback ELSE Get(optText)

getMultiDimensionalAnalytics(timeframe) ==
    Statement(<<Fixed("multi_dimensional_analytics")>>, <<timeframe>>)

getEntityRelationshipNetwork(rootEntityId) ==
    Statement(<<Fixed("relationship_network")>>, <<rootEntityId>>)

getTimeSeriesPatterns(analysisPeriod) ==
    Statement(<<Fixed("time_series_patterns")>>, <<analysisPeriod>>)

getDataIntegrityAnalysis == Statement(<<Fixed("data_integrity_analysis")>>, <<>>)

\* (attributes->>'${metric}') three times over; groupBy is not used
getCustomerAnalysis(metric, groupBy) ==
    Statement(<<Fixed("customer_analysis 1"), Spliced(metric),
                Fixed("customer_analysis 2"), Spliced(metric),
                Fixed("customer_analysis 3"), Spliced(metric),
                Fixed("customer_analysis 4")>>, <<>>)

\* attributes->>'${groupBy}', then (attributes->>'${metric}') twice
getRevenueAnalysis(metric, groupBy) ==
    Statement(<<Fixed("revenue_analysis 1"), Spliced(groupBy),
                Fixed("revenue_analysis 2"), Spliced(metric),
                Fixed("revenue_analysis 3"), Spliced(metric),
                Fixed("revenue_analysis 4")>>, <<>>)

\* attributes->>'${groupBy}'; metric is not used
getCountAnalysis(metric, groupBy) ==
    Statement(<<Fixed("count_analysis 1"), Spliced(groupBy),
                Fixed("count_analysis 2")>>, <<>>)

getSimpleDemo == Statement(<<Fixed("simple_demo")>>, <<>>)

getDatabaseInfo == Statement(<<Fixed("database_info")>>, <<>>)

\* the statements a run of the switch of executeAnalyticsOperation sends for a
\* report operation, each with the operation's name
StatementsOf(operation, optParameters) ==
    LET parameters == IF IsSome(optParameters) THEN Get(optParameters) ELSE EmptyParameters
        metric(d) == OrDefault(Param(parameters, "metric"), d)
        group_by(d) == OrDefault(Param(parameters, "group_by"), d)
        named(statement) == {[operation |-> operation] @@ statement}
    IN  CASE operation = "database_info" -> named(getDatabaseInfo)
          [] operation = "multi_dimensional_analytics" ->
                named(getMultiDimensionalAnalytics(
                        OrDefault(Param(parameters, "timeframe"), "3 months")))
          [] operation = "relationship_network" ->
                named(getEntityRelationshipNetwork(Param(parameters, "rootEntityId")))
          [] operation = "time_series_patterns" ->
                named(getTimeSeriesPatterns(
                        OrDefault(Param(parameters, "analysisPeriod"), "6 months")))
          [] operation = "data_integrity_analysis" -> named(getDataIntegrityAnalysis)
          [] operation = "customer_analysis" ->
                named(getCustomerAnalysis(metric("lifetime_value"), group_by("industry")))
          [] operation = "revenue_analysis" ->
                named(getRevenueAnalysis(metric("annual_revenue"), group_by("region")))
          [] operation = "count_analysis" ->
                named(getCountAnalysis(metric("customer_count"), group_by("industry")))
          [] operation = "simple_demo" -> named(getSimpleDemo)
          [] OTHER -> {}

\* the size check: is the result saved to the bucket?
IsLarge(result) ==
    \/ JsGreater(JsLength(result), ROW_THRESHOLD)
    \/ StringifyLength(result) > BYTE_THRESHOLD

\* executeAnalyticsOperation(operation, parameters = {}): the envelope returned,
\* the bucket afterwards and the caller-supplied texts handed to pool.query
executeAnalyticsOperation(operation, parameters, db, s3, time, objects) ==
    LET run == RunOperation(operation,
                            IF IsSome(parameters) THEN Get(parameters) ELSE EmptyParameters,
                            db)
        failed(e) == [envelope |-> FailureEnvelope(operation, e),
                      objects |-> objects, queried |-> run.queried]
    IN  IF IsSome(run.error) THEN failed(Get(run.error))
        ELSE IF IsLarge(Get(run.result))
        THEN LET saved == saveLargeResultToS3(Get(run.result), operation, time, s3, objects)
             IN  IF IsSome(saved.error) THEN failed(Get(saved.error))
                 ELSE [envelope |-> Get(saved.envelope),
                       objects |-> saved.objects, queried |-> run.queried]
        ELSE [envelope |-> InlineEnvelope(operation, Get(run.result)),
              objects |-> objects, queried |-> run.queried]

\* JSON.stringify of an envelope, as the caller parses it
WireEnvelope(envelope) ==
    [envelope EXCEPT !.data = IF IsSome(@) THEN Some(WireResult(Get(@))) ELSE None]

\* handleS3Download answering a key that has no object with an empty result
handleS3DownloadEmptyOnMiss(key, objects) ==
    IF ~IsSome(key) \/ S3Key(Get(key)) \notin DOMAIN objects
    THEN [statusCode |-> 200,
          body |-> [success |-> TRUE, data |-> Some(WireResult(ArrayResult(<<>>))),
                    recordCount |-> Some(0), error |-> None]]
    ELSE LET resultData == objects[S3Key(Get(key))]
         IN  [statusCode |-> 200,
              body |-> [success |-> TRUE, data |-> Some(WireResult(resultData.data)),
                        recordCount |-> resultData.recordCount, error |-> None]]

\* handleS3Download: the 200 response with the stored data, or the 404 of the catch
handleS3Download(key, objects) ==
    IF ~IsSome(key) \/ S3Key(Get(key)) \notin DOMAIN objects
    THEN [statusCode |-> 404,
          body |-> [success |-> FALSE, data |-> None, recordCount |-> None,
                    error |-> Some("Result not found or expired")]]
    ELSE LET resultData == objects[S3Key(Get(key))]
         IN  [statusCode |-> 200,
              body |-> [success |-> TRUE, data |-> Some(WireResult(resultData.data)),
                        recordCount |-> resultData.recordCount, error |-> None]]

\* handleApiGatewayEvent, POST /analytics: the envelope is the body of a 200
AnalyticsResponse(envelope) == [statusCode |-> 200, body |-> WireEnvelope(envelope)]

(***************************************************************************)
(* JobService.  The table maps a jobId to its item; an item maps attribute *)
(* names to values.  The attribute encoding of marshall is not modelled.   *)
(***************************************************************************)
JOB_TTL_SECONDS == 2592000

\* `job_${Date.now()}_${Math.random().toString(36).substr(2, 9)}`
JobId(time, random) == <<"job", time, random>>

\* the draws of Math.random(): two submissions may draw the same one
RandomSuffixes == {"k3x9", "p07q"}

\* jobItem of createJob
JobItem(jobId, operation, parameters, time) ==
    [a \in {"jobId", "operation", "parameters", "status", "submittedAt", "expireAt"} |->
        CASE a = "jobId" -> jobId
          [] a = "operation" -> operation
          [] a = "parameters" -> parameters
          [] a = "status" -> "submitted"
          [] a = "submittedAt" -> time
          [] a = "expireAt" -> (time \div 1000) + JOB_TTL_SECONDS]

\* PutItem: the item under the key is replaced
PutItem(items, jobId, item) ==
    [j \in DOMAIN items \cup {jobId} |-> IF j = jobId THEN item ELSE items[j]]

\* the keys and values of a JSON object: the envelope as Step Functions passes it
AsObject(envelope) ==
    [k \in {"success", "operation"}
            \cup {f \in DOMAIN envelope \ {"success", "operation"} : IsSome(envelope[f])} |->
        IF k \in {"success", "operation"} THEN envelope[k] ELSE Get(envelope[k])]

\* additionalData = {}
NoAdditionalData == [k \in {} |-> None]

\* UpdateItem as a replacement of the item: the attributes the request does not
\* name are lost
UpdateItemReplacing(items, jobId, status, additionalData) ==
    PutItem(items, jobId,
            [a \in DOMAIN additionalData \cup {"status"} |->
                IF a = "status" THEN status ELSE additionalData[a]])

\* UpdateItem with SET #status = :status and key = :key for every key of
\* additionalData, and no ConditionExpression: the attributes are set whatever
\* the item holds, and an item is created when the key has none
UpdateItem(items, jobId, status, additionalData) ==
    LET old == IF jobId \in DOMAIN items THEN items[jobId] ELSE NoAdditionalData
        new == [a \in DOMAIN old \cup DOMAIN additionalData \cup {"status"} |->
                    IF a = "status" THEN status
                    ELSE IF a \in DOMAIN additionalData THEN additionalData[a]
                    ELSE old[a]]
    IN  PutItem(items, jobId, new)

\* updateJobStatus(jobId, status, additionalData = {}): the error thrown when the
\* table refuses the request, and the table afterwards
updateJobStatus(items, jobId, status, additionalData, outcome) ==
    IF outcome.ok
    THEN [error |-> None, items |-> UpdateItem(items, jobId, status, additionalData)]
    ELSE [error |-> outcome.error, items |-> items]

\* getJob: the item, or null
getJob(items, jobId) == IF jobId \in DOMAIN items THEN Some(items[jobId]) ELSE None

\* a workflow execution as StartExecution creates it: at the first state of the
\* definition, with the input createJob passes; runs counts the invocations of
\* the analytics handler the execution has made
StartedExecution(jobId, operation, parameters) ==
    [state |-> "UpdateJobToRunning",
     input |-> [jobId |-> jobId, operation |-> operation, parameters |-> parameters],
     queryResult |-> None,
     s3Result |-> None,
     runs |-> 0]

\* createJob with the StartExecution sent before the PutItem
createJobStartingFirst(items, executions, operation, parameters, time, random, put, start) ==
    LET jobId == JobId(time, random)
    IN  IF ~IsSome(parameters)
        THEN [error |-> Some(Err("Error", "Pass options.removeUndefinedValues=true")),
              jobId |-> jobId, written |-> FALSE, items |-> items, executions |-> executions]
        ELSE IF ~start.ok \/ jobId \in DOMAIN executions
        THEN [error |-> IF start.ok
                        THEN Some(Err("ExecutionAlreadyExists", "Execution Already Exists"))
                        ELSE start.error,
              jobId |-> jobId, written |-> FALSE, items |-> items, executions |-> executions]
        ELSE IF ~put.ok
        THEN [error |-> put.error,
              jobId |-> jobId, written |-> FALSE, items |-> items,
              executions |-> PutItem(executions, jobId,
                                     StartedExecution(jobId, operation, parameters))]
        ELSE [error |-> None,
              jobId |-> jobId, written |-> TRUE,
              items |-> PutItem(items, jobId, JobItem(jobId, operation, parameters, time)),
              executions |-> PutItem(executions, jobId,
                                     StartedExecution(jobId, operation, parameters))]

\* createJob: PutItem of the job item, then StartExecution named by the jobId.
\* marshall throws on the undefined parameters of a caller that sends none; an
\* execution name can be used once.  The error thrown, if any, and the table
\* and the executions afterwards.
createJob(items, executions, operation, parameters, time, random, put, start) ==
    LET jobId == JobId(time, random)
    IN  IF ~IsSome(parameters)
        THEN [error |-> Some(Err("Error", "Pass options.removeUndefinedValues=true")),
              jobId |-> jobId, written |-> FALSE, items |-> items, executions |-> executions]
        ELSE IF ~put.ok
        THEN [error |-> put.error,
              jobId |-> jobId, written |-> FALSE, items |-> items, executions |-> executions]
        ELSE IF ~start.ok \/ jobId \in DOMAIN executions
        THEN [error |-> IF start.ok
                        THEN Some(Err("ExecutionAlreadyExists", "Execution Already Exists"))
                        ELSE start.error,
              jobId |-> jobId, written |-> TRUE,
              items |-> PutItem(items, jobId, JobItem(jobId, operation, parameters, time)),
              executions |-> executions]
        ELSE [error |-> None,
              jobId |-> jobId, written |-> TRUE,
              items |-> PutItem(items, jobId, JobItem(jobId, operation, parameters, time)),
              executions |-> PutItem(executions, jobId,
                                     StartedExecution(jobId, operation, parameters))]

TableOutcomes == {Served, Refused(Err("ValidationException", "Invalid UpdateExpression"))}

StartOutcomes == {Served, Refused(Err("ExecutionLimitExceeded", "Rate exceeded"))}

Statuses == {"submitted", "running", "completed", "failed"}

(***************************************************************************)
(* State.                                                                  *)
(***************************************************************************)
VARIABLES
    now,        \* Date.now()
    calls,      \* requests made to a handler directly so far
    jobs,       \* job submissions made so far
    bucket,     \* the result bucket: S3 key -> object
    table,      \* the job table: jobId -> item
    execs,      \* the workflow executions: name (the jobId) -> execution
    response,   \* what the last API request was answered
    issued,     \* history: the download keys returned, each with the result saved
    executed,   \* history: the caller-supplied texts handed to pool.query
    sent,       \* history: the statements the report operations handed to pool.query
    expired,    \* history: the S3 keys the lifecycle rule has removed
    trail,      \* history: jobId -> the status writes made to its item, in order
    pools,      \* history: the max of each Pool the analytics process has constructed
    dbPool      \* db.pool of the query API process: null, or the Pool of init()

vars == <<now, calls, jobs, bucket, table, execs, response, issued, executed, sent,
          expired, trail, pools, dbPool>>

Empty == [k \in {} |-> None]

Init ==
    /\ now = 0
    /\ calls = 0
    /\ jobs = 0
    /\ bucket = Empty
    /\ table = Empty
    /\ execs = Empty
    /\ response = [kind |-> "none"]
    /\ issued = {}
    /\ executed = {}
    /\ sent = {}
    /\ expired = {}
    /\ trail = Empty
    /\ pools = <<>>
    /\ dbPool = None

\* the clock advances
Tick ==
    /\ now < MaxTime
    /\ now' = now + 1
    /\ UNCHANGED <<calls, jobs, bucket, table, execs, response, issued, executed, sent, expired, trail,
                 pools, dbPool>>

\* the download keys an envelope hands out, each with the result it stands for
Handles(envelope, result) ==
    IF IsSome(envelope.downloadUrl)
    THEN {[name |-> Get(envelope.downloadUrl), result |-> result]}
    ELSE {}

\* max of the Pool of AdvancedQueryService.init, and of DatabaseService.init
ANALYTICS_POOL_MAX == 10
DATABASE_POOL_MAX == 20

\* the run of an operation reaches queryService.init(): every case of the switch
\* does, custom_complex_query once its query has passed the validation
ReachesInit(operation, optParameters) ==
    LET parameters == IF IsSome(optParameters) THEN Get(optParameters) ELSE EmptyParameters
    IN  /\ operation \in RegisteredOperations
        /\ operation = "custom_complex_query"
            => /\ ~Falsy(parameters.query)
               /\ ~IsSome(validateCustomQuery(Get(parameters.query)))

\* one invocation of exports.handler of the analytics function: a new
\* AnalyticsService, with a new AdvancedQueryService whose pool is null, is made
\* for it; init() constructs the Pool, and the finally block ends it
PoolsAfter(constructed, operation, optParameters) ==
    IF ReachesInit(operation, optParameters)
    THEN Append(constructed, ANALYTICS_POOL_MAX)
    ELSE constructed

\* one run of executeAnalyticsOperation with the result the query gave, if any
Execution(operation, parameters, db, s3) ==
    LET r == executeAnalyticsOperation(operation, parameters, db, s3, now, bucket)
    IN  [envelope |-> r.envelope, objects |-> r.objects, queried |-> r.queried,
         handles |-> Handles(r.envelope,
                             IF operation = "database_info"
                             THEN ObjectResult(db.rows) ELSE ArrayResult(db.rows))]

\* the handler keeping a record of the call in the job table
ApiAnalyticsRecording(request, db, s3) ==
    /\ calls < MaxCalls
    /\ calls' = calls + 1
    /\ pools' = PoolsAfter(pools, request.operation, request.parameters)
    /\ LET r == Execution(request.operation, request.parameters, db, s3)
       IN  /\ bucket' = r.objects
           /\ executed' = executed \cup r.queried
           /\ sent' = sent \cup StatementsOf(request.operation, request.parameters)
           /\ issued' = issued \cup r.handles
           /\ response' = [kind |-> "analytics", request |-> request]
                              @@ AnalyticsResponse(r.envelope)
    /\ table' = PutItem(table, JobId(now, "k3x9"),
                        JobItem(JobId(now, "k3x9"), request.operation, request.parameters, now))
    /\ UNCHANGED <<now, jobs, execs, expired, trail, dbPool>>

(***************************************************************************)
(* The synchronous path: POST /analytics, GET /download/{key}.             *)
(***************************************************************************)
ApiAnalytics(request, db, s3) ==
    /\ calls < MaxCalls
    /\ calls' = calls + 1
    /\ pools' = PoolsAfter(pools, request.operation, request.parameters)
    /\ LET r == Execution(request.operation, request.parameters, db, s3)
       IN  /\ bucket' = r.objects
           /\ executed' = executed \cup r.queried
           /\ sent' = sent \cup StatementsOf(request.operation, request.parameters)
           /\ issued' = issued \cup r.handles
           /\ response' = [kind |-> "analytics", request |-> request]
                              @@ AnalyticsResponse(r.envelope)
    /\ UNCHANGED <<now, jobs, table, execs, expired, trail, dbPool>>

\* handleDirectInvocation: the envelope of executeAnalyticsOperation is returned
\* as it is; the answers the store and the bucket gave are kept with it
DirectInvocation(request, db, s3) ==
    /\ calls < MaxCalls
    /\ calls' = calls + 1
    /\ pools' = PoolsAfter(pools, request.operation, request.parameters)
    /\ LET r == Execution(request.operation, request.parameters, db, s3)
       IN  /\ bucket' = r.objects
           /\ executed' = executed \cup r.queried
           /\ sent' = sent \cup StatementsOf(request.operation, request.parameters)
           /\ issued' = issued \cup r.handles
           /\ response' = [kind |-> "direct", request |-> request, db |-> db, s3 |-> s3,
                           body |-> WireEnvelope(r.envelope)]
    /\ UNCHANGED <<now, jobs, table, execs, expired, trail, dbPool>>

ApiDownload(key) ==
    /\ response' = [kind |-> "download", request |-> key] @@ handleS3Download(key, bucket)
    /\ UNCHANGED <<now, calls, jobs, bucket, table, execs, issued, executed, sent, expired, trail,
                 pools, dbPool>>

\* the bucket's lifecycle rule (expiration after 30 days) removes an object;
\* days are not counted by the millisecond clock of the model
ExpireObject(key) ==
    /\ key \in DOMAIN bucket
    /\ bucket' = DeleteObject(bucket, key)
    /\ expired' = expired \cup {key}
    /\ UNCHANGED <<now, calls, jobs, table, execs, response, issued, executed, sent, trail,
                 pools, dbPool>>

(***************************************************************************)
(* The query API handler.  Its DatabaseService, db, is made once when the  *)
(* module is loaded and lives as long as the process; db.pool is null      *)
(* until an init() has run.                                                *)
(***************************************************************************)
\* DatabaseService.init(): the pool is constructed when there is none
init(pool) == IF IsSome(pool) THEN pool ELSE Some([max |-> DATABASE_POOL_MAX])

\* queryStringParameters: null when the request has none
QueryParams(startDate, endDate, type, status) ==
    [startDate |-> startDate, endDate |-> endDate, type |-> type, status |-> status]

\* handleDataQuery: the text and the values of the query it builds
DataQuery(params) ==
    LET named(key, column) == IF Falsy(params[key]) THEN <<>> ELSE <<Fixed(column)>>
        bound(key) == IF Falsy(params[key]) THEN <<>> ELSE <<Get(params[key])>>
    IN  Statement(<<Fixed("SELECT * FROM entities WHERE 1=1")>>
                    \o named("type", "AND entity_type =")
                    \o named("status", "AND status =")
                    \o <<Fixed("ORDER BY created_at DESC LIMIT")>>,
                  bound("type") \o bound("status") \o <<"100">>)

\* getEntityAnalytics: the query and the values bound to $1, $2, $3
EntityAnalyticsQuery(params) ==
    Statement(<<Fixed("entity_analytics")>>,
              <<Get(params.startDate), Get(params.endDate), "10">>)

\* createResponse(500, { error: error.message }) of the handler's catch
ApiError(request, message, queried, pool) ==
    [kind |-> "query_api", request |-> request, statusCode |-> 500,
     error |-> Some(message), rows |-> None, queried |-> queried, pool |-> pool]

\* createResponse(200, result)
ApiRows(request, rows, pool) ==
    [kind |-> "query_api", request |-> request, statusCode |-> 200,
     error |-> None, rows |-> Some(rows), queried |-> TRUE, pool |-> pool]

\* GET /analytics: handleAnalyticsQuery, which asks db.getEntityAnalytics, which
\* takes the pool from init()
QueryApiAnalytics(params, db) ==
    /\ calls < MaxCalls
    /\ calls' = calls + 1
    /\ LET request == [path |-> "/analytics", params |-> params]
       IN  IF ~IsSome(params)
           THEN /\ dbPool' = dbPool
                /\ sent' = sent
                /\ response' = ApiError(request,
                                   "Cannot destructure property 'startDate' of 'params' as it is null.",
                                   FALSE, dbPool)
           ELSE IF Falsy(Get(params).startDate) \/ Falsy(Get(params).endDate)
           THEN /\ dbPool' = dbPool
                /\ sent' = sent
                /\ response' = ApiError(request,
                                   "startDate and endDate parameters are required",
                                   FALSE, dbPool)
           ELSE /\ dbPool' = init(dbPool)
                /\ sent' = sent \cup {[operation |-> "/analytics"]
                                        @@ EntityAnalyticsQuery(Get(params))}
                /\ response' = IF db.ok THEN ApiRows(request, db.rows, init(dbPool))
                               ELSE ApiError(request, Get(db.error).message, TRUE, init(dbPool))
    /\ UNCHANGED <<now, jobs, bucket, table, execs, issued, executed, expired, trail,
                   pools>>

\* GET /data: handleDataQuery, which calls db.pool.query on the pool as it is
QueryApiData(params, db) ==
    /\ calls < MaxCalls
    /\ calls' = calls + 1
    /\ LET request == [path |-> "/data", params |-> params]
       IN  response' =
               IF ~IsSome(params)
               THEN ApiError(request,
                             "Cannot destructure property 'type' of 'params' as it is null.",
                             FALSE, dbPool)
               ELSE IF ~IsSome(dbPool)
               THEN ApiError(request, "Cannot read properties of null (reading 'query')",
                             TRUE, dbPool)
               ELSE IF db.ok THEN ApiRows(request, db.rows, dbPool)
               ELSE ApiError(request, Get(db.error).message, TRUE, dbPool)
    /\ sent' = IF IsSome(params) /\ IsSome(dbPool)
               THEN sent \cup {[operation |-> "/data"] @@ DataQuery(Get(params))}
               ELSE sent
    /\ UNCHANGED <<now, jobs, bucket, table, execs, issued, executed, expired, trail,
                   pools, dbPool>>

(***************************************************************************)
(* The asynchronous path: the job-service handler and the states of the    *)
(* workflow definition, one action each.                                   *)
(***************************************************************************)
\* the status write entry is appended to the trail of jobId
Written(jobId, entry) ==
    [j \in DOMAIN trail \cup {jobId} |->
        IF j = jobId
        THEN (IF j \in DOMAIN trail THEN trail[j] ELSE <<>>) \o <<entry>>
        ELSE trail[j]]

\* the execution named name moves to state, with its data changed to changed
Moved(name, state, changed) ==
    [execs EXCEPT ![name] = [changed EXCEPT !.state = state]]

\* the job-service handler, action create_job
CreateJob(request, random, put, start) ==
    /\ jobs < MaxJobs
    /\ jobs' = jobs + 1
    /\ LET r == createJob(table, execs, request.operation, request.parameters,
                          now, random, put, start)
       IN  /\ table' = r.items
           /\ execs' = r.executions
           /\ trail' = IF r.written
                       THEN Written(r.jobId, [status |-> "submitted", by |-> "createJob",
                                              data |-> NoAdditionalData])
                       ELSE trail
    /\ UNCHANGED <<now, calls, bucket, response, issued, executed, sent, expired, pools, dbPool>>

\* a state that invokes the job-service handler with action update_status: the
\* execution fails when the handler throws
UpdateStatusTask(name, state, status, additionalData, outcome, next) ==
    /\ name \in DOMAIN execs
    /\ execs[name].state = state
    /\ LET r == updateJobStatus(table, execs[name].input.jobId, status,
                                additionalData, outcome)
       IN  IF IsSome(r.error)
           THEN /\ execs' = Moved(name, "FAILED", execs[name])
                /\ UNCHANGED <<table, trail, pools, dbPool>>
           ELSE /\ execs' = Moved(name, next, execs[name])
                /\ table' = r.items
                /\ trail' = Written(execs[name].input.jobId,
                                    [status |-> status, by |-> state,
                                     data |-> additionalData])
    /\ UNCHANGED <<now, calls, jobs, bucket, response, issued, executed, sent, expired,
                 pools, dbPool>>

UpdateJobToRunning(name, outcome) ==
    UpdateStatusTask(name, "UpdateJobToRunning", "running", NoAdditionalData,
                     outcome, "ExecuteAnalytics")

\* a state that invokes the analytics handler: the event has an operation and
\* no httpMethod, so handleDirectInvocation runs executeAnalyticsOperation with
\* the event's operation and parameters
AnalyticsTask(name, state, parameters, db, s3, resultPath, next) ==
    /\ name \in DOMAIN execs
    /\ execs[name].state = state
    /\ pools' = PoolsAfter(pools, execs[name].input.operation, parameters)
    /\ LET r == Execution(execs[name].input.operation, parameters, db, s3)
       IN  /\ execs' = Moved(name, next,
                             [execs[name] EXCEPT ![resultPath] = Some(WireEnvelope(r.envelope)),
                                                 !.runs = @ + 1])
           /\ bucket' = r.objects
           /\ executed' = executed \cup r.queried
           /\ sent' = sent \cup StatementsOf(execs[name].input.operation, parameters)
           /\ issued' = issued \cup r.handles
    /\ UNCHANGED <<now, calls, jobs, table, response, expired, trail, dbPool>>

ExecuteAnalytics(name, db, s3) ==
    /\ name \in DOMAIN execs
    /\ AnalyticsTask(name, "ExecuteAnalytics", execs[name].input.parameters, db, s3,
                     "queryResult", "CheckResultSize")

\* what the workflow service makes of a reference path that selects nothing:
\* the execution fails, or the value is absent and a comparison with it is false
MissingOutcomes == {"fail", "absent"}

\* $.queryResult.Payload.data.length
DataLengthRef(payload) ==
    IF IsSome(payload.data) THEN JsLength(Get(payload.data)) ELSE None

\* $.queryResult.Payload.metadata.resultCount
ResultCountRef(payload) ==
    IF IsSome(payload.metadata) THEN Get(payload.metadata).resultCount ELSE None

\* the Choice: the state that follows, given what a missing reference does
CheckResultSizeNext(payload, onMissing) ==
    LET first == DataLengthRef(payload)
        second == ResultCountRef(payload)
        firstRule == JsGreater(first, LARGE_RESULT_COUNT)
        secondRule == JsGreater(second, LARGE_RESULT_COUNT)
        \* the second rule of the Or is looked at when the first does not hold
        missing == ~IsSome(first) \/ (~firstRule /\ ~IsSome(second))
    IN  IF missing /\ onMissing = "fail" THEN "FAILED"
        ELSE IF firstRule \/ secondRule THEN "SaveLargeResult"
        ELSE "UpdateJobToCompletedSmall"

CheckResultSize(name, onMissing) ==
    /\ name \in DOMAIN execs
    /\ execs[name].state = "CheckResultSize"
    /\ execs' = Moved(name, CheckResultSizeNext(Get(execs[name].queryResult), onMissing),
                      execs[name])
    /\ UNCHANGED <<now, calls, jobs, bucket, table, response, issued, executed, sent, expired, trail,
                 pools, dbPool>>

\* SaveLargeResult passes action, jobId, data ($.queryResult.Payload.data) and
\* operation; the analytics handler finds an operation in the event and runs it,
\* with no parameters
SaveLargeResult(name, onMissing, db, s3) ==
    /\ name \in DOMAIN execs
    /\ execs[name].state = "SaveLargeResult"
    /\ IF ~IsSome(Get(execs[name].queryResult).data) /\ onMissing = "fail"
       THEN /\ execs' = Moved(name, "FAILED", execs[name])
            /\ UNCHANGED <<now, calls, jobs, bucket, table, response, issued,
                           executed, sent, expired, trail,
                 pools, dbPool>>
       ELSE AnalyticsTask(name, "SaveLargeResult", None, db, s3,
                          "s3Result", "UpdateJobToCompletedLarge")

UpdateJobToCompletedLarge(name, outcome) ==
    /\ name \in DOMAIN execs
    /\ execs[name].state = "UpdateJobToCompletedLarge"
    /\ UpdateStatusTask(name, "UpdateJobToCompletedLarge", "completed",
                        AsObject(Get(execs[name].s3Result)), outcome, "NoNotification")

\* UpdateJobToCompletedSmall writing the status of a new job
UpdateJobToCompletedSmallResubmitting(name, outcome) ==
    /\ name \in DOMAIN execs
    /\ execs[name].state = "UpdateJobToCompletedSmall"
    /\ UpdateStatusTask(name, "UpdateJobToCompletedSmall", "submitted",
                        AsObject(Get(execs[name].queryResult)), outcome, "NoNotification")

UpdateJobToCompletedSmall(name, outcome) ==
    /\ name \in DOMAIN execs
    /\ execs[name].state = "UpdateJobToCompletedSmall"
    /\ UpdateStatusTask(name, "UpdateJobToCompletedSmall", "completed",
                        AsObject(Get(execs[name].queryResult)), outcome, "NoNotification")

\* the Pass state that stands in for the notification; the execution ends
NoNotification(name) ==
    /\ name \in DOMAIN execs
    /\ execs[name].state = "NoNotification"
    /\ execs' = Moved(name, "SUCCEEDED", execs[name])
    /\ UNCHANGED <<now, calls, jobs, bucket, table, response, issued, executed, sent, expired, trail,
                 pools, dbPool>>

\* the job-service handler, action update_status, invoked by any caller
JobServiceUpdateStatus(jobId, status, additionalData, outcome) ==
    /\ calls < MaxCalls
    /\ calls' = calls + 1
    /\ LET r == updateJobStatus(table, jobId, status, additionalData, outcome)
       IN  /\ table' = r.items
           /\ trail' = IF IsSome(r.error) THEN trail
                       ELSE Written(jobId, [status |-> status, by |-> "update_status",
                                            data |-> additionalData])
           /\ response' = [kind |-> "update_status",
                           request |-> [jobId |-> jobId, status |-> status,
                                        additionalData |-> additionalData],
                           error |-> r.error]
    /\ UNCHANGED <<now, jobs, bucket, execs, issued, executed, sent, expired, pools, dbPool>>

\* the job-service handler, action get_job: getJob's item or null is returned
\* as it is read; the handler throws when the table refuses the read
JobServiceGetJob(jobId, outcome) ==
    /\ calls < MaxCalls
    /\ calls' = calls + 1
    /\ response' = [kind |-> "get_job",
                    request |-> [jobId |-> jobId],
                    lapsed |-> jobId \in expired,
                    job |-> IF outcome.ok THEN getJob(table, jobId) ELSE None,
                    error |-> IF outcome.ok THEN None ELSE outcome.error]
    /\ UNCHANGED <<now, jobs, bucket, table, execs, issued, executed, sent, expired, trail,
                 pools, dbPool>>

\* timeToLiveAttribute 'expireAt': the time passes the expireAt of a record,
\* which stays in the table until the time-to-live process deletes it; days are
\* not counted by the millisecond clock of the model
TtlElapses(jobId) ==
    /\ jobId \in DOMAIN table
    /\ jobId \notin expired
    /\ expired' = expired \cup {jobId}
    /\ UNCHANGED <<now, calls, jobs, bucket, table, execs, response, issued, executed, sent, trail,
                 pools, dbPool>>

\* the table's time-to-live process deletes an expired item, at a time of its
\* own choosing after the expiry
TtlDelete(jobId) ==
    /\ jobId \in DOMAIN table
    /\ jobId \in expired
    /\ table' = [k \in DOMAIN table \ {jobId} |-> table[k]]
    /\ UNCHANGED <<now, calls, jobs, bucket, execs, response, issued, executed, sent, expired, trail,
                 pools, dbPool>>

\* the names a download may ask for: those handed out, and one never handed out
DownloadKeys ==
    {None, Some(ResultName("count_analysis", MaxTime + 1))}
        \cup {Some(h.name) : h \in issued}

\* what the store answers to an ad-hoc query
CustomDbOutcomes ==
    {DbRows(<<>>), DbRows(SmallRows), DbRows(PlainRows(1, ROW_THRESHOLD + 1, 10)),
     DbError(Err("DatabaseError", "relation \"non_existent_table\" does not exist"))}

NextRouting ==
    \/ Tick
    \/ \E request \in ReportRequests, db \in DbOutcomes, s3 \in S3Outcomes :
            ApiAnalytics(request, db, s3)
    \/ \E key \in DownloadKeys : ApiDownload(key)
    \/ \E key \in DOMAIN bucket : ExpireObject(key)

\* synchronous calls of the report operations, downloads and expiry
SpecRouting == Init /\ [][NextRouting]_vars

NextSandbox ==
    \E request \in CustomRequests, db \in CustomDbOutcomes :
        ApiAnalytics(request, db, Served)

\* synchronous calls of custom_complex_query
SpecSandbox == Init /\ [][NextSandbox]_vars

\* the jobs callers submit
JobRequests ==
    {Request("count_analysis", None),
     Request("count_analysis", Some(EmptyParameters)),
     Request("custom_complex_query", Some(EmptyParameters)),
     Request("custom_complex_query", Some(Params(Some(qSelect), None)))}

\* what the store answers to the query of a job: a few rows, more rows than the
\* row threshold, one row longer than the size threshold, or an error
JobDbOutcomes ==
    {DbRows(SmallRows),
     DbRows(PlainRows(1, ROW_THRESHOLD + 1, 10)),
     DbRows(<<Run(1, 1, "text", BYTE_THRESHOLD, BYTE_THRESHOLD)>>),
     DbError(Err("DatabaseError", "canceling statement due to statement timeout"))}

Workflow ==
    \/ \E name \in DOMAIN execs, outcome \in TableOutcomes :
            UpdateJobToRunning(name, outcome)
    \/ \E name \in DOMAIN execs, db \in JobDbOutcomes, s3 \in S3Outcomes :
            ExecuteAnalytics(name, db, s3)
    \/ \E name \in DOMAIN execs, onMissing \in MissingOutcomes :
            CheckResultSize(name, onMissing)
    \/ \E name \in DOMAIN execs, onMissing \in MissingOutcomes,
          db \in JobDbOutcomes, s3 \in S3Outcomes :
            SaveLargeResult(name, onMissing, db, s3)
    \/ \E name \in DOMAIN execs, outcome \in TableOutcomes :
            UpdateJobToCompletedLarge(name, outcome)
    \/ \E name \in DOMAIN execs, outcome \in TableOutcomes :
            UpdateJobToCompletedSmall(name, outcome)
    \/ \E name \in DOMAIN execs : NoNotification(name)

Submit ==
    \E request \in JobRequests, random \in RandomSuffixes,
       put \in TableOutcomes, start \in StartOutcomes :
        CreateJob(request, random, put, start)

NextJobs == Tick \/ Submit \/ Workflow

\* job submissions and the workflow that runs each job
Spec == Init /\ [][NextJobs]_vars

\* the same, with the workflow service driving every execution on to its end
SpecLive == Init /\ [][NextJobs]_vars /\ WF_vars(Workflow)

\* every jobId createJob can make
JobIds == {JobId(time, random) : time \in 0..MaxTime, random \in RandomSuffixes}

\* the job ids an update_status event may name: those of the table and one of none
UpdateTargets == DOMAIN table \cup {JobId(MaxTime + 1, "k3x9")}

\* the additionalData of an update_status event: none, a field named as an
\* attribute of createJob is, the envelope of an inline result, or the envelope
\* of a failed run
UpdateData ==
    {NoAdditionalData,
     [k \in {"expireAt"} |-> 0],
     AsObject(WireEnvelope(InlineEnvelope("count_analysis", ArrayResult(SmallRows)))),
     AsObject(WireEnvelope(FailureEnvelope("count_analysis",
                Err("DatabaseError", "canceling statement due to statement timeout"))))}

NextDirect ==
    \/ Submit
    \/ \E name \in DOMAIN execs, outcome \in TableOutcomes :
            UpdateJobToRunning(name, outcome)
    \/ \E jobId \in UpdateTargets, status \in Statuses, additionalData \in UpdateData,
          outcome \in TableOutcomes :
            JobServiceUpdateStatus(jobId, status, additionalData, outcome)

\* the job-service handler alone: create_job events, and update_status events
\* sent by the first state of the workflow and by any other caller
SpecDirect == Init /\ [][NextDirect]_vars

NextRewrite ==
    \/ \E random \in RandomSuffixes :
            CreateJob(Request("count_analysis", Some(EmptyParameters)), random, Served, Served)
    \/ \E jobId \in DOMAIN table, status \in Statuses, additionalData \in UpdateData,
          outcome \in TableOutcomes :
            JobServiceUpdateStatus(jobId, status, additionalData, outcome)

\* update_status events on the records of jobs that were submitted
SpecRewrite == Init /\ [][NextRewrite]_vars

ReadOutcomes == {Served, Refused(Err("InternalServerError", "Internal server error"))}

\* the ids a get_job event may name: those of the records, and one of no record
LookupIds == DOMAIN table \cup {JobId(0, "none")}

NextLookup ==
    \/ \E random \in RandomSuffixes :
            /\ expired = {}
            /\ CreateJob(Request("count_analysis", Some(EmptyParameters)), random, Served, Served)
    \/ Tick
    \/ \E jobId \in DOMAIN table : TtlElapses(jobId)
    \/ \E jobId \in DOMAIN table : TtlDelete(jobId)
    \/ \E jobId \in LookupIds, outcome \in ReadOutcomes : JobServiceGetJob(jobId, outcome)

\* get_job events on the records of jobs submitted 30 days or more before
SpecLookup == Init /\ [][NextLookup]_vars

NextStart ==
    \/ Tick
    \/ Submit
    \/ \E name \in DOMAIN execs, outcome \in TableOutcomes :
            UpdateJobToRunning(name, outcome)
    \/ \E name \in DOMAIN execs, db \in JobDbOutcomes, s3 \in S3Outcomes :
            ExecuteAnalytics(name, db, s3)

\* submissions, and the first two states of the workflow of each
SpecStart == Init /\ [][NextStart]_vars

NextSync ==
    \/ \E random \in RandomSuffixes :
            CreateJob(Request("count_analysis", Some(EmptyParameters)), random, Served, Served)
    \/ \E request \in JobRequests, db \in CustomDbOutcomes, s3 \in S3Outcomes :
            ApiAnalytics(request, db, s3)

\* the operations of submitted jobs, asked for synchronously as well
SpecSync == Init /\ [][NextSync]_vars

\* what the store answers to a directly invoked operation
InvokeDbOutcomes ==
    CustomDbOutcomes
        \cup {DbError(Err("DatabaseError", "canceling statement due to statement timeout"))}

NextInvoke ==
    \E request \in ReportRequests \cup CustomRequests,
       db \in InvokeDbOutcomes, s3 \in S3Outcomes :
        DirectInvocation(request, db, s3)

\* direct invocations of the analytics handler
SpecInvoke == Init /\ [][NextInvoke]_vars

\* the query strings of GET /analytics and GET /data
QueryStrings ==
    {None}
        \cup {Some(QueryParams(startDate, endDate, type, status)) :
                startDate \in {None, Some("2024-01-01")},
                endDate \in {None, Some(""), Some("2024-12-31")},
                type \in {None, Some("customer")},
                status \in {None, Some("active")}}

ApiDbOutcomes ==
    {DbRows(<<>>), DbRows(SmallRows),
     DbError(Err("DatabaseError", "canceling statement due to statement timeout"))}

NextQueryApi ==
    \/ \E params \in QueryStrings, db \in ApiDbOutcomes : QueryApiAnalytics(params, db)
    \/ \E params \in QueryStrings, db \in ApiDbOutcomes : QueryApiData(params, db)

\* the requests one process of the query API handler serves, in any order
SpecQueryApi == Init /\ [][NextQueryApi]_vars

\* a job submitted before: createJob('count_analysis', {}) at time 0
StoredJob == JobId(0, "k3x9")

\* the state createJob leaves when it has served that submission
InitStored ==
    /\ now = 0
    /\ calls = 0
    /\ jobs = 0
    /\ bucket = Empty
    /\ table = PutItem(Empty, StoredJob,
                       JobItem(StoredJob, "count_analysis", Some(EmptyParameters), 0))
    /\ execs = PutItem(Empty, StoredJob,
                       StartedExecution(StoredJob, "count_analysis", Some(EmptyParameters)))
    /\ response = [kind |-> "none"]
    /\ issued = {}
    /\ executed = {}
    /\ sent = {}
    /\ expired = {}
    /\ trail = PutItem(Empty, StoredJob,
                       <<[status |-> "submitted", by |-> "createJob",
                          data |-> NoAdditionalData]>>)
    /\ pools = <<>>
    /\ dbPool = None

\* submissions and the workflow, on a table that holds the record of a job
SpecStored == InitStored /\ [][NextJobs]_vars

(***************************************************************************)
(* The data-processor handler (database-service.js), invoked directly.     *)
(***************************************************************************)
\* exports.handler for an event without Records: with a query, pool.query of
\* the event's text; without one, the two fixed queries of the manual test
DataProcessorQuery(query, db) ==
    /\ calls < MaxCalls
    /\ calls' = calls + 1
    /\ executed' = IF Falsy(query) THEN executed ELSE executed \cup {Get(query)}
    /\ response' = [kind |-> IF Falsy(query) THEN "manual_test" ELSE "data_query",
                    request |-> query,
                    statusCode |-> IF db.ok THEN 200 ELSE 500,
                    body |-> IF db.ok
                             THEN [success |-> TRUE, rows |-> Some(WireRows(db.rows)),
                                   error |-> None]
                             ELSE [success |-> FALSE, rows |-> None,
                                   error |-> Some(Get(db.error).message)]]
    /\ UNCHANGED <<now, jobs, bucket, table, execs, issued, sent, expired, trail, pools, dbPool>>

\* the events sent to the data-processor handler
EventQueries == {None} \cup {Some(q) : q \in QueryTexts \cup {<<>>}}

NextEntry ==
    \/ NextSandbox
    \/ \E query \in EventQueries, db \in CustomDbOutcomes : DataProcessorQuery(query, db)

\* the two entry points that take SQL text from the caller
SpecEntry == Init /\ [][NextEntry]_vars

(***************************************************************************)
(* Synchronous calls of the report operations that take a metric, a        *)
(* group_by or a timeframe.                                                *)
(***************************************************************************)
ReportParameters(metric, group_by, timeframe) ==
    [query |-> None, timeframe |-> timeframe, metric |-> metric, group_by |-> group_by]

\* the values a caller sends: none, the empty text, a column name, and a text
\* that closes the quoted literal it is put in
CallerValues == {None, Some(""), Some("employees"), Some("x' OR '1'='1")}

AnalysisRequests ==
    {Request(operation, Some(ReportParameters(metric, group_by, timeframe))) :
        operation \in {"customer_analysis", "revenue_analysis", "count_analysis",
                       "multi_dimensional_analytics"},
        metric \in CallerValues, group_by \in CallerValues,
        timeframe \in {None, Some("1 month")}}

NextReports ==
    \E request \in AnalysisRequests,
       db \in {DbRows(SmallRows),
               DbError(Err("DatabaseError", "syntax error at or near \"1\""))} :
        ApiAnalytics(request, db, Served)

SpecReports == Init /\ [][NextReports]_vars

(***************************************************************************)
(* Properties of the job record.                                           *)
(***************************************************************************)
\* one step forward in the lifecycle
Forward(a, b) ==
    <<a, b>> \in {<<"submitted", "running">>, <<"running", "completed">>,
                  <<"running", "failed">>, <<"submitted", "failed">>}

\* the place of a status in the lifecycle order
Rank(status) ==
    CASE status = "submitted" -> 0
      [] status = "running" -> 1
      [] status \in {"completed", "failed"} -> 2

Precedes(a, b) == Rank(a) < Rank(b)

\* the statuses written to the item of jobId, in order
StatusesWritten(jobId) == [i \in 1..Len(trail[jobId]) |-> trail[jobId][i].status]

\* createJob wrote the item of jobId once: no second submission drew the same id
SubmittedOnce(jobId) ==
    Cardinality({i \in 1..Len(trail[jobId]) : trail[jobId][i].by = "createJob"}) = 1

\* C1: the status of a job that one submission and its workflow execution
\* drive changes only by a step forward: submitted -> running, running ->
\* completed or failed, or submitted -> failed; completed and failed, having
\* no step forward, never change.
C1_StatusMovesForward ==
    [][\A j \in DOMAIN table :
            (SubmittedOnce(j))' =>
                \/ table'[j].status = table[j].status
                \/ Forward(table[j].status, table'[j].status)]_vars

\* a job written submitted, running and completed, in this order
C1_Witness ==
    \E j \in DOMAIN table :
        /\ table[j].status = "completed"
        /\ StatusesWritten(j) = <<"submitted", "running", "completed">>

\* C2: an update_status request whose status precedes the one the item holds
\* is answered with an error and leaves the table as it was.
C2_BackwardWriteRejected ==
    [][\A jobId \in DOMAIN table, status \in Statuses, additionalData \in UpdateData,
         outcome \in TableOutcomes :
            (JobServiceUpdateStatus(jobId, status, additionalData, outcome)
                /\ Precedes(status, table[jobId].status))
            => (table' = table /\ IsSome(response'.error))]_vars

\* the item carries a result: inline rows or the key of a saved object
HasResult(item) == "data" \in DOMAIN item \/ "s3Url" \in DOMAIN item

\* the item carries error information
HasError(item) == "error" \in DOMAIN item

OmitsRequired(input) ==
    /\ input.operation = "custom_complex_query"
    /\ (IsSome(input.parameters) => ~IsSome(Get(input.parameters).query))

\* C5: custom_complex_query run without its query fails with an error of type
\* ValidationError, and the job that ran it is never written completed and is
\* failed once its execution has ended.
C5_MissingParameterFailsJob ==
    \A j \in DOMAIN execs :
        OmitsRequired(execs[j].input) =>
            /\ IsSome(execs[j].queryResult) =>
                    /\ ~Get(execs[j].queryResult).success
                    /\ IsSome(Get(execs[j].queryResult).error)
                    /\ Get(Get(execs[j].queryResult).error).type = "ValidationError"
            /\ \A i \in 1..Len(trail[j]) : trail[j][i].status # "completed"
            /\ execs[j].state \in {"SUCCEEDED", "FAILED"} => table[j].status = "failed"

(***************************************************************************)
(* Properties of routing and of the saved results.                         *)
(***************************************************************************)
\* the last request was POST /analytics and was answered with a success
Succeeded == response.kind = "analytics" /\ response.body.success

IsInline(envelope) == IsSome(envelope.data)

IsHandle(envelope) ==
    /\ envelope.largeResult = Some(TRUE)
    /\ IsSome(envelope.s3Url)
    /\ IsSome(envelope.downloadUrl)

\* any part of a handle
PartOfHandle(envelope) ==
    IsSome(envelope.largeResult) \/ IsSome(envelope.s3Url) \/ IsSome(envelope.downloadUrl)

\* more rows than the row threshold, or a JSON text of more bytes than the size
\* threshold
OverThresholds(result) ==
    RowCount(result.rows) > ROW_THRESHOLD \/ StringifyBytes(result) > BYTE_THRESHOLD

\* C6: rows returned inline are at most 1000 and of at most 5,000,000 bytes of
\* JSON text, and rows saved to the bucket are more than 1000 or of more than
\* 5,000,000 bytes.
C6_RoutedByRowsAndBytes ==
    /\ (Succeeded /\ IsInline(response.body) /\ Get(response.body.data).isArray)
            => ~OverThresholds(Get(response.body.data))
    /\ \A h \in issued : h.result.isArray => OverThresholds(h.result)

\* C7: a success envelope holds the rows or a handle (largeResult, s3Url and
\* downloadUrl), and not both.
C7_OnePayloadVariant ==
    Succeeded =>
        \/ IsInline(response.body) /\ ~PartOfHandle(response.body)
        \/ ~IsInline(response.body) /\ IsHandle(response.body)

\* a success answered with a handle
C7_Witness == Succeeded /\ IsHandle(response.body) /\ ~IsInline(response.body)

\* the download of the name a handle gave finds the object
Finds(name) == handleS3Download(Some(name), bucket).statusCode = 200

\* C8, as stated: the object of every handle handed out is there, and a
\* download by the handle finds it whenever it is made.
C8_HandleAlwaysFound == \A h \in issued : Finds(h.name)

\* C8: the object of every handle handed out was written, and a download by
\* the handle finds it until the bucket's lifecycle rule has removed it.
C8_HandleFoundUntilExpiry ==
    \A h \in issued : S3Key(h.name) \notin expired => Finds(h.name)

\* a download by a handle handed out, answered with the object
C8_Witness ==
    /\ response.kind = "download"
    /\ response.statusCode = 200
    /\ \E h \in issued : response.request = Some(h.name) /\ S3Key(h.name) \notin expired

\* C9: a download by a handle returns the rows of the result the handle was
\* given for, all of them and in their order.
C9_DownloadReturnsRows ==
    \A h \in issued :
        (response.kind = "download" /\ response.statusCode = 200
            /\ response.request = Some(h.name))
        => /\ response.body.data = Some(WireResult(h.result))
           /\ response.body.recordCount = JsLength(h.result)

(***************************************************************************)
(* Properties of the sandbox.                                              *)
(***************************************************************************)
\* lit occurs in text, in any letter case
Contains(text, lit) == \E i \in 1..Len(text) : LiteralAt(text, i, lit)

\* a occurs in text and b occurs after it
ContainsThen(text, a, b) ==
    \E i, j \in 1..Len(text) :
        LiteralAt(text, i, a) /\ LiteralAt(text, j, b) /\ j >= i + Len(a)

\* text contains DROP, DELETE FROM, TRUNCATE, INSERT INTO, UPDATE ... SET,
\* CREATE, ALTER, GRANT or REVOKE
NamesForbidden(text) ==
    \/ \E kw \in {kwDROP, kwTRUNCATE, kwCREATE, kwALTER, kwGRANT, kwREVOKE} :
            Contains(text, kw)
    \/ Test(PhrasePattern(kwDELETE, kwFROM), text)
    \/ Test(PhrasePattern(kwINSERT, kwINTO), text)
    \/ ContainsThen(text, kwUPDATE, kwSET)

\* C10: a query text that contains a forbidden operation is never handed to
\* pool.query, and the request that sent it is answered with an error of type
\* ForbiddenQueryError.
C10_ForbiddenNeverExecuted ==
    /\ \A q \in executed : ~NamesForbidden(q)
    /\ (/\ response.kind = "analytics"
        /\ response.request.operation = "custom_complex_query"
        /\ IsSome(response.request.parameters)
        /\ IsSome(Get(response.request.parameters).query)
        /\ NamesForbidden(Get(Get(response.request.parameters).query)))
       => (/\ ~response.body.success
           /\ Get(response.body.error).type = "ForbiddenQueryError")

\* C11: every caller-supplied text handed to pool.query has passed
\* validateCustomQuery, whichever entry point took it.
C11_ExecutedTextValidated ==
    \A q \in executed : ~IsSome(validateCustomQuery(q))

\* C12: the SQL text a report operation sends is the same whatever the caller's
\* values are: two statements of one operation have the same text.
C12_ReportTextFixed ==
    \A st1, st2 \in sent : st1.operation = st2.operation => st1.text = st2.text

\* C13: a synchronous call naming an operation that is not registered is
\* answered with success false, an error of type UnknownOperationError and a
\* client-error status.
C13_UnknownOperationAnswer ==
    (response.kind = "analytics" /\ response.request.operation \notin RegisteredOperations)
    => /\ ~response.body.success
       /\ IsSome(response.body.error)
       /\ Get(response.body.error).type = "UnknownOperationError"
       /\ response.statusCode \in 400..499

\* the operation of job j was run and failed
RunFailed(j) ==
    /\ j \in DOMAIN execs
    /\ IsSome(execs[j].queryResult)
    /\ ~Get(execs[j].queryResult).success

\* C14: every job whose operation fails (in the query or in saving the result)
\* eventually has a record with status failed.
C14_FailureLeadsToFailed ==
    \A j \in JobIds : RunFailed(j) ~> (j \in DOMAIN table /\ table[j].status = "failed")

\* the error types of the retryable class: a failed query, a failed write to
\* the bucket
RetryableTypes == {"DatabaseError", "S3ServiceException"}

\* C15: a job whose run failed has, once its execution is over, status failed;
\* its operation was run at most 3 times (the first attempt and 2 retries), and
\* once only when the error is not of the retryable class.
C15_RetriesThenFailed ==
    \A j \in DOMAIN execs :
        (RunFailed(j) /\ execs[j].state \in {"SUCCEEDED", "FAILED"})
        => /\ execs[j].runs \in 1..3
           /\ Get(Get(execs[j].queryResult).error).type \notin RetryableTypes
                => execs[j].runs = 1
           /\ table[j].status = "failed"

\* the item holds every field of data, with the same value
HoldsFields(item, data) == \A k \in DOMAIN data : k \in DOMAIN item /\ item[k] = data[k]

\* C16: an update_status request with status completed and fields the record
\* already holds, on a record that is completed, leaves the table as it was
\* and writes nothing to the bucket and starts or moves no execution.
C16_CompletedAgainChangesNothing ==
    [][\A jobId \in DOMAIN table, additionalData \in UpdateData, outcome \in TableOutcomes :
            (/\ JobServiceUpdateStatus(jobId, "completed", additionalData, outcome)
             /\ table[jobId].status = "completed"
             /\ HoldsFields(table[jobId], additionalData))
            => (table' = table /\ bucket' = bucket /\ execs' = execs /\ issued' = issued)]_vars

\* a record written completed twice running with the same fields, the second
\* time by an update_status request that was served
C16_Witness ==
    \E j \in DOMAIN trail : \E i \in 1..(Len(trail[j]) - 1) :
        /\ trail[j][i].status = "completed"
        /\ trail[j][i + 1].status = "completed"
        /\ trail[j][i + 1].by = "update_status"
        /\ trail[j][i + 1].data = trail[j][i].data
        /\ "operation" \in DOMAIN table[j]

\* C17: a result is saved under a key no other result has used: no step
\* replaces the object an existing key holds, and no two handles handed out
\* for different results name the same object.
C17_KeyNeverReused ==
    [][/\ \A k \in DOMAIN bucket \cap DOMAIN bucket' : bucket'[k] = bucket[k]
       /\ \A h1, h2 \in issued' : h1.name = h2.name => h1 = h2]_vars

\* the attributes createJob gives an item
JobAttributes == {"jobId", "operation", "parameters", "status", "submittedAt", "expireAt"}

\* the fields of the item beside the attributes of createJob are those of data
FieldsAre(item, data) ==
    /\ DOMAIN item \ JobAttributes = DOMAIN data \ JobAttributes
    /\ \A k \in DOMAIN data \ JobAttributes : item[k] = data[k]

\* C18: whatever attempts wrote to a record and in whatever order, the record
\* is what one write of its current status made it: beside the attributes of
\* createJob it holds the fields of that write and no field of another.
C18_RecordIsOneWrite ==
    \A j \in DOMAIN table :
        \E i \in 1..Len(trail[j]) :
            /\ trail[j][i].status = table[j].status
            /\ FieldsAre(table[j], trail[j][i].data)

\* C19: the expireAt of a job record is 30 days after its submission, at its
\* creation and after every update_status request, whatever fields it carries.
C19_ExpireAtFixed ==
    \A j \in DOMAIN table :
        table[j].expireAt = (table[j].submittedAt \div 1000) + JOB_TTL_SECONDS

\* C20: a get_job request is answered with a record only when a record of that
\* jobId exists and its expireAt has not passed at the time of the answer.
C20_ExpiredNeverReturned ==
    (response.kind = "get_job" /\ IsSome(response.job))
    => /\ Get(response.job).jobId = response.request.jobId
       /\ ~response.lapsed

\* C21: an update_status request on a jobId that has no record creates none:
\* every record of the table was first written by createJob.
C21_UpdateCreatesNoRecord ==
    \A j \in DOMAIN table : trail[j][1].by = "createJob"

\* C22: creating a job never overwrites a record: every record the table holds
\* when a create_job request arrives is the same after it.
C22_CreateOverwritesNothing ==
    [][jobs' = jobs + 1 => \A j \in DOMAIN table : table'[j] = table[j]]_vars

\* C23: createJob writes the record, with status submitted, before it starts
\* the execution: every execution has a record whose first write is createJob's,
\* and a createJob that returns a jobId leaves a record of that jobId.
C23_RecordBeforeExecution ==
    /\ \A name \in DOMAIN execs :
            /\ name \in DOMAIN table
            /\ trail[name][1] = [status |-> "submitted", by |-> "createJob",
                                 data |-> NoAdditionalData]
    /\ \A request \in JobRequests, random \in RandomSuffixes,
          put \in TableOutcomes, start \in StartOutcomes :
            LET r == createJob(table, execs, request.operation, request.parameters,
                               now, random, put, start)
            IN  ~IsSome(r.error)
                => /\ r.jobId \in DOMAIN r.items
                   /\ r.items[r.jobId].status = "submitted"
                   /\ r.jobId \in DOMAIN r.executions

\* the first state of an execution has written running to the record of its job
C23_Witness ==
    \E name \in DOMAIN execs :
        /\ execs[name].state = "ExecuteAnalytics"
        /\ name \in DOMAIN table
        /\ table[name].status = "running"
        /\ Len(trail[name]) = 2

\* C24: a synchronous call of an operation, whether it succeeds or fails, leaves
\* the job table, the executions and the count of jobs submitted as they were.
C24_SyncCallLeavesJobs ==
    [][(calls' = calls + 1 /\ response'.kind = "analytics")
        => /\ table' = table
           /\ execs' = execs
           /\ jobs' = jobs
           /\ trail' = trail]_vars

\* a synchronous call has failed while the table holds the record of a job
C24_Witness ==
    /\ response.kind = "analytics"
    /\ ~response.body.success
    /\ DOMAIN table # {}

Carries(statement, value) ==
    \/ \E i \in 1..Len(statement.text) :
            ~statement.text[i].fixed /\ statement.text[i].text = value
    \/ \E i \in 1..Len(statement.values) : statement.values[i] = value

\* the parameters with a default that the statement of an operation takes in
DefaultedIn(operation) ==
    CASE operation = "multi_dimensional_analytics" -> {"timeframe"}
      [] operation = "customer_analysis" -> {"metric"}
      [] operation = "revenue_analysis" -> {"metric", "group_by"}
      [] operation = "count_analysis" -> {"group_by"}
      [] OTHER -> {}

\* C26: the statement of a report call holds, for every parameter with a
\* default, the caller's value whenever the caller sent one, empty or not.
C26_CallerValueWins ==
    (response.kind = "analytics" /\ IsSome(response.request.parameters))
    => LET operation == response.request.operation
           parameters == Get(response.request.parameters)
       IN  \A key \in DefaultedIn(operation) :
               IsSome(parameters[key])
               => \A statement \in StatementsOf(operation, response.request.parameters) :
                       Carries(statement, Get(parameters[key]))

\* an error is raised in the run of a request: by the dispatch, by the
\* validation, by the store, or by the bucket when the result is saved to it
Raises(request, db, s3) ==
    LET parameters == IF IsSome(request.parameters) THEN Get(request.parameters)
                      ELSE EmptyParameters
    IN  \/ request.operation \notin RegisteredOperations
        \/ /\ request.operation = "custom_complex_query"
           /\ \/ Falsy(parameters.query)
              \/ IsSome(validateCustomQuery(Get(parameters.query)))
        \/ ~db.ok
        \/ /\ ~s3.ok
           /\ IsLarge(IF request.operation = "database_info"
                      THEN ObjectResult(db.rows) ELSE ArrayResult(db.rows))

\* C27: every error raised within executeAnalyticsOperation comes back as an
\* envelope with success false, the error's message and type, and at least one
\* suggestion.
C27_ErrorsBecomeEnvelopes ==
    (response.kind = "direct" /\ Raises(response.request, response.db, response.s3))
    => /\ ~response.body.success
       /\ IsSome(response.body.error)
       /\ DOMAIN Get(response.body.error) = {"message", "type"}
       /\ IsSome(response.body.suggestions)
       /\ Len(Get(response.body.suggestions)) > 0
       /\ ~IsSome(response.body.data)

\* the bucket has refused the object of a large result
C27_Witness ==
    /\ response.kind = "direct"
    /\ response.db.ok
    /\ ~response.s3.ok
    /\ ~response.body.success
    /\ Get(response.body.error).type = "S3ServiceException"

C28_PoolConstructedOnce ==
    /\ Len(pools) <= 1
    /\ \A i \in 1..Len(pools) : pools[i] = ANALYTICS_POOL_MAX

\* C30: whenever the query API handler calls query, the pool it calls it on has
\* been constructed by init().
C30_QueryOnInitialisedPool ==
    (response.kind = "query_api" /\ response.queried) => IsSome(response.pool)

====
